---- MODULE Spec2Model ----
(***************************************************************************)
(* go-data-buffer: a Buffer (src/unnamed/part_001) owning named Buckets    *)
(* (src/bucket.go).  A Bucket is a bufio.Writer over an afero file, an     *)
(* open flag and two counters; a Buffer is a map from names to Buckets     *)
(* behind a sync.RWMutex.                                                  *)
(*                                                                         *)
(* Every Bucket method runs whole under the bucket's own lock and touches  *)
(* only that bucket and its file, so a Bucket method is one step.  Buffer  *)
(* methods take the buffer lock, walk the map and release it: they are     *)
(* several steps, and goroutines interleave between them.                  *)
(***************************************************************************)
EXTENDS Integers, Sequences, FiniteSets, TLC

\* ------------------------------------------------------------------ bounds
MaxLen    == 3   \* longest payload of one Write
BufSize   == 2   \* size of the bufio.Writer buffer (4096 in the library)
MaxWrites == 3   \* accepted Writes per bucket that the model follows
MaxFail   == 1   \* filesystem failures injected in one run
MaxRead   == 2   \* longest slice handed to Read
MaxInst   == 3   \* Bucket instances one Buffer constructs
NumNames  == 2   \* bucket names in use
NumProcs  == 2   \* goroutines calling the Buffer
MaxCalls  == 3   \* calls the goroutines make in one run of the Buffer

Names == 1..NumNames
Inst  == 1..MaxInst
Procs == 1..NumProcs

\* The payload of length n: bytes that name the payload, so that a lost, a
\* repeated or a split payload shows in the file.
Payload(n) == [k \in 1..n |-> 10 * n + k]
Payloads   == {Payload(n) : n \in 0..MaxLen}

Min(a, b) == IF a < b THEN a ELSE b

VARIABLES
  bucket,    \* Inst -> the fields of struct Bucket (and its file handle)
  disk,      \* Names -> the instance whose file is linked at the path, 0: none
  root,      \* the root directory exists
  buckets,   \* Buffer.buckets: Names -> instance, 0: absent
  nInst,     \* Bucket instances constructed so far
  mu,        \* Buffer's sync.RWMutex: [w: holder or 0, r: set of readers]
  pc,        \* Procs -> where the goroutine stands in its Buffer call
  loc,       \* Procs -> the locals of that call
  ret,       \* the call that returned in the last step
  hist,      \* Inst -> what the callers did to the bucket and were told
  calls,     \* calls the goroutines made so far
  seen,      \* Procs -> the totals that held at some instant of a running Writes()/Bytes()
  fails,     \* filesystem failures injected so far
  panicked   \* the process died on a nil dereference

vars == <<bucket, disk, root, buckets, nInst, mu, pc, loc, ret, hist, calls, seen, fails, panicked>>

\* --------------------------------------------------------- afero.File, bufio
\* A file handle: nil until create; data is the content of the file the handle
\* refers to, pos its cursor.
NilFile   == [nil |-> TRUE, data |-> <<>>, pos |-> 0]
NewFile   == [nil |-> FALSE, data |-> <<>>, pos |-> 0]
\* A *bufio.Writer: nil until create; buf is what it holds in memory, err its
\* sticky error.
NilWriter == [nil |-> TRUE, buf |-> <<>>, err |-> FALSE]
NewWriter == [nil |-> FALSE, buf |-> <<>>, err |-> FALSE]

\* NewBucket: closed, no file, no writer, counters zero.
NewBucket(name) ==
  [path |-> name, file |-> NilFile, open |-> FALSE, writer |-> NilWriter,
   writes |-> 0, bytes |-> 0]

\* An instance that was not constructed yet.
NoBucket == NewBucket(0)

\* file.Write(p) at the cursor: overwrite, extend, advance.
FileWrite(f, p) ==
  [f EXCEPT !.data = SubSeq(f.data, 1, f.pos) \o p
                       \o SubSeq(f.data, f.pos + Len(p) + 1, Len(f.data)),
            !.pos  = f.pos + Len(p)]

\* bufio.Writer.Flush: nothing to do on a sticky error or an empty buffer;
\* else one file.Write of the buffer, which the filesystem may refuse (~ok).
WriterFlush(w, f, ok) ==
  IF w.err THEN [w |-> w, f |-> f, err |-> TRUE, io |-> FALSE]
  ELSE IF Len(w.buf) = 0 THEN [w |-> w, f |-> f, err |-> FALSE, io |-> FALSE]
  ELSE IF ok THEN [w |-> [w EXCEPT !.buf = <<>>], f |-> FileWrite(f, w.buf),
                   err |-> FALSE, io |-> TRUE]
  ELSE [w |-> [w EXCEPT !.err = TRUE], f |-> f, err |-> TRUE, io |-> TRUE]

\* A writer without a buffer: every Write goes to the file at once.
MutWriteThrough(w, f, p, ok) ==
  IF w.err THEN [w |-> w, f |-> f, err |-> TRUE, io |-> FALSE]
  ELSE IF ok THEN [w |-> [w EXCEPT !.buf = <<>>], f |-> FileWrite(f, w.buf \o p),
                   err |-> FALSE, io |-> TRUE]
  ELSE [w |-> [w EXCEPT !.err = TRUE], f |-> f, err |-> TRUE, io |-> TRUE]

\* bufio.Writer.Write: while p does not fit, either write it straight to the
\* file (empty buffer) or fill the buffer and flush it; then keep the rest in
\* the buffer.  io: the filesystem was called.
RECURSIVE WriterWrite(_, _, _, _)
WriterWrite(w, f, p, ok) ==
  IF Len(p) > BufSize - Len(w.buf) /\ ~w.err
  THEN IF Len(w.buf) = 0
       THEN IF ok
            THEN [w |-> w, f |-> FileWrite(f, p), err |-> FALSE, io |-> TRUE]
            ELSE [w |-> [w EXCEPT !.err = TRUE], f |-> f, err |-> TRUE, io |-> TRUE]
       ELSE LET n  == BufSize - Len(w.buf)
                fl == WriterFlush([w EXCEPT !.buf = w.buf \o SubSeq(p, 1, n)], f, ok)
                r  == WriterWrite(fl.w, fl.f, SubSeq(p, n + 1, Len(p)), ok)
            IN  [r EXCEPT !.io = TRUE]
  ELSE IF w.err THEN [w |-> w, f |-> f, err |-> TRUE, io |-> FALSE]
  ELSE [w |-> [w EXCEPT !.buf = w.buf \o p], f |-> f, err |-> FALSE, io |-> FALSE]

\* ------------------------------------------------------------ struct Bucket
\* Every method below is the body that runs under b.Lock() (Read: b.RLock()).
\* It takes the bucket b and yields the bucket afterwards with the result res:
\* "ok", a lifecycle error, "io" (a filesystem error, handed on verbatim) or
\* "panic" (a nil file or writer is dereferenced).

\* create that also starts the counters afresh.
MutCreateZeroes(b, ok) ==
  IF ok THEN [b |-> [b EXCEPT !.file = NewFile, !.writer = NewWriter,
                              !.writes = 0, !.bytes = 0],
              res |-> "ok", made |-> TRUE]
  ELSE [b |-> b, res |-> "io", made |-> FALSE]

\* create: fs.Create(b.path), then a fresh handle and a fresh writer over it.
\* made: the file was created (and truncated) at the path.
BucketCreate(b, ok) ==
  IF ok THEN [b |-> [b EXCEPT !.file = NewFile, !.writer = NewWriter],
              res |-> "ok", made |-> TRUE]
  ELSE [b |-> b, res |-> "io", made |-> FALSE]

\* Open without the already-open check: creates again.
MutOpenNoCheck(b, ok) ==
  LET c == BucketCreate(b, ok)
  IN  IF c.res # "ok" THEN c ELSE [c EXCEPT !.b.open = TRUE]

\* Open
BucketOpen(b, ok) ==
  IF b.open THEN [b |-> b, res |-> "already open", made |-> FALSE]
  ELSE LET c == BucketCreate(b, ok)
       IN  IF c.res # "ok" THEN c
           ELSE [c EXCEPT !.b.open = TRUE]

\* flush that returns nil without calling the writer.
MutFlushNothing(b, ok) ==
  IF b.writer.nil THEN [b |-> b, res |-> "panic", io |-> FALSE]
  ELSE [b |-> b, res |-> "ok", io |-> FALSE]

\* flush
BucketFlush(b, ok) ==
  IF b.writer.nil THEN [b |-> b, res |-> "panic", io |-> FALSE]
  ELSE LET fl == WriterFlush(b.writer, b.file, ok)
       IN  [b   |-> [b EXCEPT !.writer = fl.w, !.file = fl.f],
            res |-> IF fl.err THEN "io" ELSE "ok",
            io  |-> fl.io]

\* Close that leaves the cursor where the flush left it.
MutCloseNoSeek(b, fm) ==
  LET fl == BucketFlush(b, fm # "write")
  IN  IF fl.res # "ok" THEN fl
      ELSE IF fm = "seek"
           THEN [b |-> [fl.b EXCEPT !.open = FALSE], res |-> "io", io |-> TRUE]
           ELSE [b |-> [fl.b EXCEPT !.open = FALSE], res |-> "ok", io |-> fl.io]

\* Close that flushes and seeks but leaves the bucket open.
MutCloseStaysOpen(b, fm) ==
  LET fl == BucketFlush(b, fm # "write")
  IN  IF fl.res # "ok" THEN fl
      ELSE IF fm = "seek"
           THEN [b |-> fl.b, res |-> "io", io |-> TRUE]
           ELSE [b |-> [fl.b EXCEPT !.file.pos = 0], res |-> "ok", io |-> fl.io]

\* Close that sets open = false before it flushes.
MutCloseSealFirst(b, fm) ==
  LET fl == BucketFlush(b, fm # "write")
  IN  IF fl.res = "panic" THEN fl
      ELSE IF fl.res # "ok" THEN [fl EXCEPT !.b.open = FALSE]
      ELSE IF fm = "seek"
           THEN [b |-> [fl.b EXCEPT !.open = FALSE], res |-> "io", io |-> TRUE]
           ELSE [b |-> [fl.b EXCEPT !.open = FALSE, !.file.pos = 0],
                 res |-> "ok", io |-> fl.io]

\* Close: flush, open = false, Seek(0, 0).  fm names the filesystem call that
\* fails: "none", "write" (the flush) or "seek".
BucketClose(b, fm) ==
  LET fl == BucketFlush(b, fm # "write")
  IN  IF fl.res # "ok" THEN fl
      ELSE IF fm = "seek"
           THEN [b |-> [fl.b EXCEPT !.open = FALSE], res |-> "io", io |-> TRUE]
           ELSE [b |-> [fl.b EXCEPT !.open = FALSE, !.file.pos = 0],
                 res |-> "ok", io |-> fl.io]

\* Destroy that removes the file and keeps the counters.
MutDestroyKeepsCounters(b, linked, ok) ==
  IF b.file.nil THEN [b |-> b, res |-> "panic", removed |-> FALSE]
  ELSE IF ~linked \/ ~ok THEN [b |-> b, res |-> "io", removed |-> FALSE]
  ELSE [b |-> b, res |-> "ok", removed |-> TRUE]

\* Destroy: fs.Remove(b.file.Name()), then both counters to zero.  linked: a
\* file exists at the path (Remove of a missing file is an error).
BucketDestroy(b, linked, ok) ==
  IF b.file.nil THEN [b |-> b, res |-> "panic", removed |-> FALSE]
  ELSE IF ~linked \/ ~ok THEN [b |-> b, res |-> "io", removed |-> FALSE]
  ELSE [b |-> [b EXCEPT !.writes = 0, !.bytes = 0], res |-> "ok", removed |-> TRUE]

\* Write without the open check (a closed bucket still has its writer).
MutWriteNoGate(b, data, ok) ==
  IF b.writer.nil THEN [b |-> b, res |-> "not open", io |-> FALSE]
  ELSE LET r == WriterWrite(b.writer, b.file, data, ok)
       IN  IF r.err
           THEN [b |-> [b EXCEPT !.writer = r.w, !.file = r.f], res |-> "io", io |-> r.io]
           ELSE [b |-> [b EXCEPT !.writer = r.w, !.file = r.f,
                                 !.writes = b.writes + 1,
                                 !.bytes  = b.bytes + Len(data)],
                 res |-> "ok", io |-> r.io]

\* Write that counts before it looks at the writer's error.
MutWriteCountFirst(b, data, ok) ==
  IF ~b.open THEN [b |-> b, res |-> "not open", io |-> FALSE]
  ELSE LET r == WriterWrite(b.writer, b.file, data, ok)
       IN  [b |-> [b EXCEPT !.writer = r.w, !.file = r.f,
                            !.writes = b.writes + 1,
                            !.bytes  = b.bytes + Len(data)],
            res |-> IF r.err THEN "io" ELSE "ok", io |-> r.io]

\* Write
BucketWrite(b, data, ok) ==
  IF ~b.open THEN [b |-> b, res |-> "not open", io |-> FALSE]
  ELSE LET r == WriterWrite(b.writer, b.file, data, ok)
       IN  IF r.err
           THEN [b |-> [b EXCEPT !.writer = r.w, !.file = r.f], res |-> "io", io |-> r.io]
           ELSE [b |-> [b EXCEPT !.writer = r.w, !.file = r.f,
                                 !.writes = b.writes + 1,
                                 !.bytes  = b.bytes + Len(data)],
                 res |-> "ok", io |-> r.io]

\* Read without the still-open check.
MutReadNoGate(b, k) ==
  IF b.file.nil THEN [b |-> b, res |-> "panic", data |-> <<>>]
  ELSE LET n == Min(k, Len(b.file.data) - b.file.pos)
       IN  IF n <= 0 THEN [b |-> b, res |-> "EOF", data |-> <<>>]
           ELSE [b    |-> [b EXCEPT !.file.pos = b.file.pos + n],
                 res  |-> "ok",
                 data |-> SubSeq(b.file.data, b.file.pos + 1, b.file.pos + n)]

\* Read into a slice of length k: the bytes from the cursor on, io.EOF when
\* there are none.
BucketRead(b, k) ==
  IF b.open THEN [b |-> b, res |-> "still open", data |-> <<>>]
  ELSE IF b.file.nil THEN [b |-> b, res |-> "panic", data |-> <<>>]
  ELSE LET n == Min(k, Len(b.file.data) - b.file.pos)
       IN  IF n <= 0 THEN [b |-> b, res |-> "EOF", data |-> <<>>]
           ELSE [b    |-> [b EXCEPT !.file.pos = b.file.pos + n],
                 res  |-> "ok",
                 data |-> SubSeq(b.file.data, b.file.pos + 1, b.file.pos + n)]

\* Writes, Bytes
BucketWrites(b) == b.writes
BucketBytes(b)  == b.bytes

\* ------------------------------------------------------------------ history
\* What the callers of one bucket did and were told, kept beside the bucket:
\*   all    the payloads of the Writes that returned nil, concatenated in the
\*          order the Writes took the bucket lock, since construction
\*   w      the number of those Writes
\*   mark   Len(all) at the last Open that returned nil
\*   dw, dlen  w and Len(all) at the last Destroy that returned nil
\*   sealed the last Open or Close that returned was a Close that returned nil
\*   got    the bytes the Reads returned since that Close
\*   live   Buffer.Get constructed the bucket and the Buffer did not replace
\*          its map since
\*   named  a Buffer.Get that returned the bucket, or a Buffer.Write that
\*          wrote to it, returned nil and the Reset loop did not replace the
\*          map since
NoHist == [all |-> <<>>, w |-> 0, mark |-> 0, dw |-> 0, dlen |-> 0,
           sealed |-> FALSE, got |-> <<>>, live |-> FALSE, named |-> FALSE]

\* The history after Open, Write(data), Close, Destroy returned res and after
\* Read returned data.
HistOpen(h, res) ==
  IF res = "ok" THEN [h EXCEPT !.mark = Len(h.all), !.sealed = FALSE, !.got = <<>>] ELSE h
HistWrite(h, res, data) ==
  IF res = "ok" THEN [h EXCEPT !.all = @ \o data, !.w = @ + 1] ELSE h
HistClose(h, res) ==
  IF res = "panic" THEN h ELSE [h EXCEPT !.sealed = (res = "ok"), !.got = <<>>]
HistDestroy(h, res) ==
  IF res = "ok" THEN [h EXCEPT !.dw = h.w, !.dlen = Len(h.all)] ELSE h
HistRead(h, data) == [h EXCEPT !.got = @ \o data]

\* The number and the total length of the Writes to instance i that returned
\* nil since construction or the last Destroy that returned nil.
CountedWrites(i) == hist[i].w - hist[i].dw
CountedBytes(i)  == Len(hist[i].all) - hist[i].dlen

\* A return: the method, the bucket it concerns (0: none), the error, the
\* number returned, and for a Buffer method the goroutine that called.
Ret(op, i, res, n) == [op |-> op, inst |-> i, res |-> res, n |-> n, by |-> 0]
RetBy(g, op, i, res, n) == [op |-> op, inst |-> i, res |-> res, n |-> n, by |-> g]
NoRet == Ret("none", 0, "ok", 0)

\* The failure budget: a filesystem call may fail while fails < MaxFail.
MayFail(ok) == ok \/ fails < MaxFail
Spend(used) == fails' = IF used THEN fails + 1 ELSE fails

\* The file at the path of name: its content, <<>> when there is none.
Linked(name)   == disk[name] # 0
FileAt(name)   == IF Linked(name) THEN bucket[disk[name]].file.data ELSE <<>>

BufferVars == <<buckets, nInst, mu, pc, loc, calls, seen>>

\* ------------------------------------------------- calls on one Bucket
\* b.Open() on instance i.  On a missing root directory the Create either
\* fails (the OS filesystem) or makes the directory (afero's MemMapFs).
CallOpen(i) ==
  /\ ~panicked
  /\ \E ok \in BOOLEAN :
       /\ ok \/ ~root \/ fails < MaxFail
       /\ LET b == bucket[i]
              r == BucketOpen(b, ok)
          IN  /\ bucket' = [bucket EXCEPT ![i] = r.b]
              /\ disk' = IF r.made THEN [disk EXCEPT ![b.path] = i] ELSE disk
              /\ root' = (root \/ r.made)
              /\ Spend(~ok /\ ~b.open /\ root)
              /\ hist' = [hist EXCEPT ![i] = HistOpen(@, r.res)]
              /\ ret' = Ret("Bucket.Open", i, r.res, 0)
  /\ UNCHANGED <<BufferVars, panicked>>

\* b.Write(data) on instance i.
CallWrite(i, data) ==
  /\ ~panicked
  /\ hist[i].w < MaxWrites
  /\ \E ok \in BOOLEAN :
       /\ MayFail(ok)
       /\ LET r == BucketWrite(bucket[i], data, ok)
          IN  /\ bucket' = [bucket EXCEPT ![i] = r.b]
              /\ Spend(~ok /\ r.io)
              /\ hist' = [hist EXCEPT ![i] = HistWrite(@, r.res, data)]
              /\ ret' = Ret("Bucket.Write", i, r.res, 0)
  /\ UNCHANGED <<disk, root, BufferVars, panicked>>

\* b.Flush() on instance i.
CallFlush(i) ==
  /\ ~panicked
  /\ \E ok \in BOOLEAN :
       /\ MayFail(ok)
       /\ LET r == BucketFlush(bucket[i], ok)
          IN  /\ bucket' = [bucket EXCEPT ![i] = r.b]
              /\ Spend(~ok /\ r.io)
              /\ panicked' = (r.res = "panic")
              /\ ret' = Ret("Bucket.Flush", i, r.res, 0)
  /\ UNCHANGED <<disk, root, BufferVars, hist>>

\* b.Close() on instance i.
CallClose(i) ==
  /\ ~panicked
  /\ \E fm \in {"none", "write", "seek"} :
       /\ MayFail(fm = "none")
       /\ LET r == BucketClose(bucket[i], fm)
          IN  /\ bucket' = [bucket EXCEPT ![i] = r.b]
              /\ Spend(fm # "none" /\ r.io /\ r.res = "io")
              /\ panicked' = (r.res = "panic")
              /\ hist' = [hist EXCEPT ![i] = HistClose(@, r.res)]
              /\ ret' = Ret("Bucket.Close", i, r.res, 0)
  /\ UNCHANGED <<disk, root, BufferVars>>

\* b.Destroy() on instance i.
CallDestroy(i) ==
  /\ ~panicked
  /\ \E ok \in BOOLEAN :
       /\ MayFail(ok)
       /\ LET b == bucket[i]
              r == BucketDestroy(b, b.path # 0 /\ Linked(b.path), ok)
          IN  /\ bucket' = [bucket EXCEPT ![i] = r.b]
              /\ disk' = IF r.removed THEN [disk EXCEPT ![b.path] = 0] ELSE disk
              /\ Spend(~ok /\ ~b.file.nil /\ Linked(b.path))
              /\ panicked' = (r.res = "panic")
              /\ hist' = [hist EXCEPT ![i] = HistDestroy(@, r.res)]
              /\ ret' = Ret("Bucket.Destroy", i, r.res, 0)
  /\ UNCHANGED <<root, BufferVars>>

\* b.Read(p) with len(p) = k on instance i.
ReadBody(i, k) ==
  LET r == BucketRead(bucket[i], k)
  IN  /\ bucket' = [bucket EXCEPT ![i] = r.b]
      /\ panicked' = (r.res = "panic")
      /\ hist' = [hist EXCEPT ![i] = HistRead(@, r.data)]
      /\ ret' = Ret("Bucket.Read", i, r.res, Len(r.data))

CallRead(i, k) ==
  /\ ~panicked
  /\ ReadBody(i, k)
  /\ UNCHANGED <<disk, root, BufferVars, fails>>

\* The locals of a goroutine outside a Buffer call; b is the *Bucket it got
\* from its last Get, 0 when it has none.
IdleLoc(b) == [op |-> "none", name |-> 0, data |-> <<>>, b |-> b, todo |-> {}, sum |-> 0]

\* ------------------------------------------------- one Bucket, used directly
\* A Bucket made with NewBucket and driven by its owner, as in bucket_test.go:
\* instance 1 at path 1, no Buffer involved.
InitBucket ==
  /\ bucket = [i \in Inst |-> IF i = 1 THEN NewBucket(1) ELSE NoBucket]
  /\ disk = [n \in Names |-> 0]
  /\ root = FALSE
  /\ buckets = [n \in Names |-> 0]
  /\ nInst = 1
  /\ mu = [w |-> 0, r |-> {}]
  /\ pc = [g \in Procs |-> "idle"]
  /\ loc = [g \in Procs |-> IdleLoc(0)]
  /\ calls = 0
  /\ seen = [g \in Procs |-> {}]
  /\ ret = NoRet
  /\ hist = [i \in Inst |-> NoHist]
  /\ fails = 0
  /\ panicked = FALSE

NextBucket ==
  \/ CallOpen(1)
  \/ \E data \in Payloads : CallWrite(1, data)
  \/ CallFlush(1)
  \/ CallClose(1)
  \/ CallDestroy(1)
  \/ \E k \in 1..MaxRead : CallRead(1, k)

SpecBucket == InitBucket /\ [][NextBucket]_vars

\* ------------------------------------------------------------ struct Buffer
\* b.Lock() and b.RLock() on the Buffer's RWMutex return when these hold.
MutNoLock == TRUE

CanLock  == mu.w = 0 /\ mu.r = {}
CanRLock == mu.w = 0

\* A loop over the buckets that goes on after an error.
MutNeverStops(res) == FALSE

\* if err := bucket.Close(); err != nil { return err }, and the same in the
\* loops of Reset and FlushAll.
Stops(res) == res # "ok"

\* The number of files under the root instead of the number of keys.
MutSizeOnDisk == Cardinality({n \in Names : disk[n] # 0})

\* The instances in the map, and len(b.buckets).
Tracked  == {buckets[n] : n \in Names} \ {0}
Size     == Cardinality({n \in Names : buckets[n] # 0})

\* The sum of one counter over a set of instances.
Counter(bkt, i, op) == IF op = "Buffer.Writes" THEN BucketWrites(bkt[i]) ELSE BucketBytes(bkt[i])

RECURSIVE SumOver(_, _, _)
SumOver(S, bkt, op) ==
  IF S = {} THEN 0
  ELSE LET i == CHOOSE x \in S : TRUE
       IN  Counter(bkt, i, op) + SumOver(S \ {i}, bkt, op)

\* The sum over all tracked buckets when the map is bks and the buckets bkt.
Total(bks, bkt, op) == SumOver({bks[n] : n \in Names} \ {0}, bkt, op)

\* Every step notes, for each goroutine inside Writes() or Bytes(), the total
\* that holds after the step; a goroutine that just returned keeps its notes
\* for the state of the return.
Observe ==
  seen' = [g \in DOMAIN pc |->
             IF pc'[g] = "Agg"
             THEN (IF pc[g] = "Agg" THEN seen[g] ELSE {})
                    \cup {Total(buckets', bucket', loc'[g].op)}
             ELSE IF pc[g] = "Agg" THEN seen[g] ELSE {}]

\* A goroutine starts a call: one more of the MaxCalls the model follows.
Call == calls < MaxCalls /\ calls' = calls + 1

\* NewBuffer: an empty map; nothing on disk.
Init ==
  /\ bucket = [i \in Inst |-> NoBucket]
  /\ disk = [n \in Names |-> 0]
  /\ root = FALSE
  /\ buckets = [n \in Names |-> 0]
  /\ nInst = 0
  /\ mu = [w |-> 0, r |-> {}]
  /\ pc = [g \in Procs |-> "idle"]
  /\ loc = [g \in Procs |-> IdleLoc(0)]
  /\ ret = NoRet
  /\ hist = [i \in Inst |-> NoHist]
  /\ calls = 0
  /\ seen = [g \in Procs |-> {}]
  /\ fails = 0
  /\ panicked = FALSE

\* Buffer.Open: Lock, MkdirAll(root), Unlock.
BufferOpen(g) ==
  /\ ~panicked /\ pc[g] = "idle" /\ CanLock
  /\ \E ok \in BOOLEAN :
       /\ MayFail(ok)
       /\ root' = (root \/ ok)
       /\ Spend(~ok)
       /\ ret' = RetBy(g, "Buffer.Open", 0, IF ok THEN "ok" ELSE "io", 0)
  /\ loc' = [loc EXCEPT ![g] = IdleLoc(0)]
  /\ UNCHANGED <<bucket, disk, buckets, nInst, mu, pc, hist, panicked>>
  /\ Call
  /\ Observe

\* Buffer.Get(name), and the Get inside Buffer.Write(name, data): b.Lock().
GetCall(g, op, name, data) ==
  /\ ~panicked /\ pc[g] = "idle" /\ CanLock
  /\ buckets[name] # 0 \/ nInst < MaxInst
  /\ mu' = [mu EXCEPT !.w = g]
  /\ pc' = [pc EXCEPT ![g] = "Get"]
  /\ loc' = [loc EXCEPT ![g] = [IdleLoc(0) EXCEPT !.op = op, !.name = name, !.data = data]]
  /\ ret' = NoRet
  /\ UNCHANGED <<bucket, disk, root, buckets, nInst, hist, fails, panicked>>
  /\ Call
  /\ Observe

\* Get returns bucket i: the deferred Unlock; Buffer.Write goes on to
\* bucket.Write.
GetReturn(g, i) ==
  /\ mu' = [mu EXCEPT !.w = 0]
  /\ IF loc[g].op = "Buffer.Get"
     THEN /\ pc' = [pc EXCEPT ![g] = "idle"]
          /\ loc' = [loc EXCEPT ![g] = IdleLoc(i)]
          /\ ret' = RetBy(g, "Buffer.Get", i, "ok", 0)
          /\ hist' = [hist EXCEPT ![i].named = TRUE]
     ELSE /\ pc' = [pc EXCEPT ![g] = "Write"]
          /\ loc' = [loc EXCEPT ![g].b = i]
          /\ ret' = NoRet
          /\ hist' = hist

\* bucket, ok := b.buckets[name]; 0: not ok.
MutLookupMiss(name) == 0

Lookup(name) == buckets[name]

\* Get: the lookup; on a miss NewBucket and bucket.Open().
GetLookup(g) ==
  /\ ~panicked /\ pc[g] = "Get"
  /\ LET name == loc[g].name
     IN  IF Lookup(name) # 0
         THEN /\ GetReturn(g, Lookup(name))
              /\ UNCHANGED <<bucket, disk, root, buckets, nInst, fails, panicked>>
         ELSE /\ nInst < MaxInst
              /\ \E ok \in BOOLEAN :
                   /\ ok \/ ~root \/ fails < MaxFail
                   /\ LET i == nInst + 1
                          r == BucketOpen(NewBucket(name), ok)
                      IN  IF r.res = "ok"
                          THEN /\ bucket' = [bucket EXCEPT ![i] = r.b]
                               /\ nInst' = i
                               /\ disk' = [disk EXCEPT ![name] = i]
                               /\ root' = TRUE
                               /\ hist' = [hist EXCEPT ![i] = [HistOpen(NoHist, r.res) EXCEPT !.live = TRUE]]
                               /\ pc' = [pc EXCEPT ![g] = "GetInsert"]
                               /\ loc' = [loc EXCEPT ![g].b = i]
                               /\ ret' = NoRet
                               /\ UNCHANGED <<mu, fails>>
                          ELSE /\ mu' = [mu EXCEPT !.w = 0]
                               /\ pc' = [pc EXCEPT ![g] = "idle"]
                               /\ loc' = [loc EXCEPT ![g] = IdleLoc(0)]
                               /\ ret' = RetBy(g, loc[g].op, 0, r.res, 0)
                               /\ Spend(root)
                               /\ UNCHANGED <<bucket, nInst, disk, root, hist>>
              /\ UNCHANGED <<buckets, panicked>>
  /\ UNCHANGED calls
  /\ Observe

\* Get: b.buckets[name] = bucket, and the return.
GetInsert(g) ==
  /\ ~panicked /\ pc[g] = "GetInsert"
  /\ buckets' = [buckets EXCEPT ![loc[g].name] = loc[g].b]
  /\ GetReturn(g, loc[g].b)
  /\ UNCHANGED <<bucket, disk, root, nInst, fails, panicked>>
  /\ UNCHANGED calls
  /\ Observe

\* Buffer.Write after its Get: bucket.Write(data), without the Buffer lock.
WriteBucket(g) ==
  /\ ~panicked /\ pc[g] = "Write"
  /\ \E ok \in BOOLEAN :
       /\ MayFail(ok)
       /\ LET i == loc[g].b
              r == BucketWrite(bucket[i], loc[g].data, ok)
          IN  /\ bucket' = [bucket EXCEPT ![i] = r.b]
              /\ Spend(~ok /\ r.io)
              /\ hist' = [hist EXCEPT ![i] = [HistWrite(@, r.res, loc[g].data)
                                                EXCEPT !.named = @ \/ r.res = "ok"]]
              /\ ret' = RetBy(g, "Buffer.Write", i, r.res, 0)
  /\ pc' = [pc EXCEPT ![g] = "idle"]
  /\ loc' = [loc EXCEPT ![g] = IdleLoc(0)]
  /\ UNCHANGED <<disk, root, buckets, nInst, mu, panicked>>
  /\ UNCHANGED calls
  /\ Observe

\* Buffer.Close: b.Lock(); the loop closes one bucket per step, in the order
\* the map yields them.
CloseCall(g) ==
  /\ ~panicked /\ pc[g] = "idle" /\ CanLock
  /\ mu' = [mu EXCEPT !.w = g]
  /\ pc' = [pc EXCEPT ![g] = "Close"]
  /\ loc' = [loc EXCEPT ![g] = [IdleLoc(0) EXCEPT !.op = "Buffer.Close", !.todo = Tracked]]
  /\ ret' = NoRet
  /\ UNCHANGED <<bucket, disk, root, buckets, nInst, hist, fails, panicked>>
  /\ Call
  /\ Observe

CloseStep(g) ==
  /\ ~panicked /\ pc[g] = "Close"
  /\ \E i \in loc[g].todo, fm \in {"none", "write", "seek"} :
       /\ MayFail(fm = "none")
       /\ LET r == BucketClose(bucket[i], fm)
          IN  /\ bucket' = [bucket EXCEPT ![i] = r.b]
              /\ Spend(fm # "none" /\ r.io /\ r.res = "io")
              /\ panicked' = (r.res = "panic")
              /\ hist' = [hist EXCEPT ![i] = HistClose(@, r.res)]
              /\ IF ~Stops(r.res)
                 THEN /\ loc' = [loc EXCEPT ![g].todo = @ \ {i}]
                      /\ ret' = NoRet
                      /\ UNCHANGED <<mu, pc>>
                 ELSE /\ mu' = [mu EXCEPT !.w = 0]
                      /\ pc' = [pc EXCEPT ![g] = "idle"]
                      /\ loc' = [loc EXCEPT ![g] = IdleLoc(0)]
                      /\ ret' = RetBy(g, "Buffer.Close", i, r.res, 0)
  /\ UNCHANGED <<disk, root, buckets, nInst>>
  /\ UNCHANGED calls
  /\ Observe

CloseDone(g) ==
  /\ ~panicked /\ pc[g] = "Close" /\ loc[g].todo = {}
  /\ mu' = [mu EXCEPT !.w = 0]
  /\ pc' = [pc EXCEPT ![g] = "idle"]
  /\ loc' = [loc EXCEPT ![g] = IdleLoc(0)]
  /\ ret' = RetBy(g, "Buffer.Close", 0, "ok", 0)
  /\ UNCHANGED <<bucket, disk, root, buckets, nInst, hist, fails, panicked>>
  /\ UNCHANGED calls
  /\ Observe

\* Buffer.Reset, and the Reset that Buffer.Destroy starts with: b.Lock(); the
\* loop destroys one bucket per step; then the map is replaced.
ResetCall(g, op) ==
  /\ ~panicked /\ pc[g] = "idle" /\ CanLock
  /\ mu' = [mu EXCEPT !.w = g]
  /\ pc' = [pc EXCEPT ![g] = "Reset"]
  /\ loc' = [loc EXCEPT ![g] = [IdleLoc(0) EXCEPT !.op = op, !.todo = Tracked]]
  /\ ret' = NoRet
  /\ UNCHANGED <<bucket, disk, root, buckets, nInst, hist, fails, panicked>>
  /\ Call
  /\ Observe

ResetStep(g) ==
  /\ ~panicked /\ pc[g] = "Reset"
  /\ \E i \in loc[g].todo, ok \in BOOLEAN :
       /\ MayFail(ok)
       /\ LET b == bucket[i]
              r == BucketDestroy(b, Linked(b.path), ok)
          IN  /\ bucket' = [bucket EXCEPT ![i] = r.b]
              /\ disk' = IF r.removed THEN [disk EXCEPT ![b.path] = 0] ELSE disk
              /\ Spend(~ok /\ ~b.file.nil /\ Linked(b.path))
              /\ panicked' = (r.res = "panic")
              /\ hist' = [hist EXCEPT ![i] = HistDestroy(@, r.res)]
              /\ IF ~Stops(r.res)
                 THEN /\ loc' = [loc EXCEPT ![g].todo = @ \ {i}]
                      /\ ret' = NoRet
                      /\ UNCHANGED <<mu, pc>>
                 ELSE /\ mu' = [mu EXCEPT !.w = 0]
                      /\ pc' = [pc EXCEPT ![g] = "idle"]
                      /\ loc' = [loc EXCEPT ![g] = IdleLoc(0)]
                      /\ ret' = RetBy(g, loc[g].op, i, r.res, 0)
  /\ UNCHANGED <<root, buckets, nInst>>
  /\ UNCHANGED calls
  /\ Observe

ResetDone(g) ==
  /\ ~panicked /\ pc[g] = "Reset" /\ loc[g].todo = {}
  /\ buckets' = [n \in Names |-> 0]
  /\ mu' = [mu EXCEPT !.w = 0]
  /\ IF loc[g].op = "Buffer.Reset"
     THEN /\ pc' = [pc EXCEPT ![g] = "idle"]
          /\ loc' = [loc EXCEPT ![g] = IdleLoc(0)]
          /\ ret' = RetBy(g, "Buffer.Reset", 0, "ok", 0)
     ELSE /\ pc' = [pc EXCEPT ![g] = "DestroyRm"]
          /\ loc' = loc
          /\ ret' = NoRet
  /\ hist' = [i \in Inst |-> [hist[i] EXCEPT !.live = FALSE, !.named = FALSE]]
  /\ UNCHANGED <<bucket, disk, root, nInst, fails, panicked>>
  /\ UNCHANGED calls
  /\ Observe

\* Buffer.Destroy after its Reset returned nil: b.Lock(), RemoveAll(root).
DestroyRm(g) ==
  /\ ~panicked /\ pc[g] = "DestroyRm" /\ CanLock
  /\ \E ok \in BOOLEAN :
       /\ MayFail(ok)
       /\ root' = (root /\ ~ok)
       /\ disk' = IF ok THEN [n \in Names |-> 0] ELSE disk
       /\ Spend(~ok)
       /\ ret' = RetBy(g, "Buffer.Destroy", 0, IF ok THEN "ok" ELSE "io", 0)
  /\ pc' = [pc EXCEPT ![g] = "idle"]
  /\ loc' = [loc EXCEPT ![g] = IdleLoc(0)]
  /\ UNCHANGED <<bucket, buckets, nInst, mu, hist, panicked>>
  /\ UNCHANGED calls
  /\ Observe

\* Buffer.Writes and Buffer.Bytes: b.RLock(); the loop adds one bucket's
\* counter per step (bucket.Writes() or bucket.Bytes()); the deferred RUnlock.
AggCall(g, op) ==
  /\ ~panicked /\ pc[g] = "idle" /\ CanRLock
  /\ mu' = [mu EXCEPT !.r = @ \cup {g}]
  /\ pc' = [pc EXCEPT ![g] = "Agg"]
  /\ loc' = [loc EXCEPT ![g] = [IdleLoc(0) EXCEPT !.op = op, !.todo = Tracked]]
  /\ ret' = NoRet
  /\ UNCHANGED <<bucket, disk, root, buckets, nInst, hist, fails, panicked>>
  /\ Call
  /\ Observe

AggStep(g) ==
  /\ ~panicked /\ pc[g] = "Agg"
  /\ \E i \in loc[g].todo :
       loc' = [loc EXCEPT ![g].todo = @ \ {i},
                          ![g].sum = @ + Counter(bucket, i, loc[g].op)]
  /\ ret' = NoRet
  /\ UNCHANGED <<bucket, disk, root, buckets, nInst, mu, pc, hist, fails, panicked>>
  /\ UNCHANGED calls
  /\ Observe

AggDone(g) ==
  /\ ~panicked /\ pc[g] = "Agg" /\ loc[g].todo = {}
  /\ mu' = [mu EXCEPT !.r = @ \ {g}]
  /\ pc' = [pc EXCEPT ![g] = "idle"]
  /\ loc' = [loc EXCEPT ![g] = IdleLoc(0)]
  /\ ret' = RetBy(g, loc[g].op, 0, "ok", loc[g].sum)
  /\ UNCHANGED <<bucket, disk, root, buckets, nInst, hist, fails, panicked>>
  /\ UNCHANGED calls
  /\ Observe

\* Buffer.Size and Buffer.Buckets: RLock, the number (the list) of keys, RUnlock.
BufferSize(g) ==
  /\ ~panicked /\ pc[g] = "idle" /\ CanRLock
  /\ ret' = RetBy(g, "Buffer.Size", 0, "ok", Size)
  /\ loc' = [loc EXCEPT ![g] = IdleLoc(0)]
  /\ UNCHANGED <<bucket, disk, root, buckets, nInst, mu, pc, hist, fails, panicked>>
  /\ Call
  /\ Observe

\* A goroutine reads with len(p) = k from the bucket its last Get returned.
ProcRead(g, k) ==
  /\ ~panicked /\ pc[g] = "idle" /\ loc[g].b # 0
  /\ ReadBody(loc[g].b, k)
  /\ UNCHANGED <<disk, root, buckets, nInst, mu, pc, loc, fails>>
  /\ Call
  /\ Observe

Next ==
  \E g \in Procs :
    \/ BufferOpen(g)
    \/ \E name \in Names : GetCall(g, "Buffer.Get", name, <<>>)
    \/ \E name \in Names, n \in 1..MaxLen : GetCall(g, "Buffer.Write", name, Payload(n))
    \/ GetLookup(g)
    \/ GetInsert(g)
    \/ WriteBucket(g)
    \/ CloseCall(g)
    \/ CloseStep(g)
    \/ CloseDone(g)
    \/ ResetCall(g, "Buffer.Reset")
    \/ ResetCall(g, "Buffer.Destroy")
    \/ ResetStep(g)
    \/ ResetDone(g)
    \/ DestroyRm(g)
    \/ AggCall(g, "Buffer.Writes")
    \/ AggCall(g, "Buffer.Bytes")
    \/ AggStep(g)
    \/ AggDone(g)
    \/ BufferSize(g)
    \/ \E k \in 1..MaxRead : ProcRead(g, k)

Spec == Init /\ [][Next]_vars

\* ------------------------------------------- concurrent writers, then Close
\* TestBatchWrites: after Buffer.Open() every goroutine issues one
\* Buffer.Write to bucket 1 with a payload of its own; when all have returned
\* (wg.Wait()) goroutine 1 calls Buffer.Close().  The filesystem works.
Tagged(g, n) == [k \in 1..n |-> 100 * g + 10 * n + k]

InitBatch ==
  /\ bucket = [i \in Inst |-> NoBucket]
  /\ disk = [n \in Names |-> 0]
  /\ root = TRUE
  /\ buckets = [n \in Names |-> 0]
  /\ nInst = 0
  /\ mu = [w |-> 0, r |-> {}]
  /\ pc = [g \in Procs |-> "idle"]
  /\ loc = [g \in Procs |-> IdleLoc(0)]
  /\ ret = NoRet
  /\ hist = [i \in Inst |-> NoHist]
  /\ calls = 0
  /\ seen = [g \in Procs |-> {}]
  /\ fails = MaxFail
  /\ panicked = FALSE

\* The goroutines are started in turn; each runs on its own from there.
BatchWrite(g) ==
  /\ calls = g - 1
  /\ \E n \in 0..MaxLen : GetCall(g, "Buffer.Write", 1, Tagged(g, n))

BatchClose ==
  /\ calls = NumProcs
  /\ \A g \in Procs : pc[g] = "idle"
  /\ CloseCall(1)

NextBatch ==
  \/ \E g \in Procs : BatchWrite(g)
  \/ \E g \in Procs : GetLookup(g)
  \/ \E g \in Procs : GetInsert(g)
  \/ \E g \in Procs : WriteBucket(g)
  \/ BatchClose
  \/ CloseStep(1)
  \/ CloseDone(1)

SpecBatch == InitBatch /\ [][NextBatch]_vars

\* ------------------------------------------ writers beside Writes()/Bytes()
\* One goroutine more than the Buffer runs have: two writers can then stand
\* between their Get and their bucket.Write while a third sums the counters.
AggProcs == 1..(NumProcs + 1)

InitAgg ==
  /\ bucket = [i \in Inst |-> NoBucket]
  /\ disk = [n \in Names |-> 0]
  /\ root = TRUE
  /\ buckets = [n \in Names |-> 0]
  /\ nInst = 0
  /\ mu = [w |-> 0, r |-> {}]
  /\ pc = [g \in AggProcs |-> "idle"]
  /\ loc = [g \in AggProcs |-> IdleLoc(0)]
  /\ ret = NoRet
  /\ hist = [i \in Inst |-> NoHist]
  /\ calls = 0
  /\ seen = [g \in AggProcs |-> {}]
  /\ fails = MaxFail
  /\ panicked = FALSE

NextAgg ==
  \E g \in AggProcs :
    \/ \E name \in Names, n \in 1..MaxLen : GetCall(g, "Buffer.Write", name, Payload(n))
    \/ GetLookup(g)
    \/ GetInsert(g)
    \/ WriteBucket(g)
    \/ AggCall(g, "Buffer.Writes")
    \/ AggCall(g, "Buffer.Bytes")
    \/ AggStep(g)
    \/ AggDone(g)

SpecAgg == InitAgg /\ [][NextAgg]_vars

\* ------------------------------------------------- the lazy variant
\* part_000 (Bucket) and part_002 (Buffer): a Bucket has no open flag (the
\* field stays FALSE here), Get constructs a bucket without a file, and the
\* first Write creates it.  A goroutine of this program rests at pc "lazy".

\* Bucket.Create under b.Lock().
LazyCreate(b, ok) ==
  IF ~b.file.nil THEN [b |-> b, res |-> "already created", made |-> FALSE]
  ELSE BucketCreate(b, ok)

\* Bucket.Write from b.Lock() on: writer.Write, then the counters.
LazyWrite(b, data, ok) ==
  IF b.writer.nil THEN [b |-> b, res |-> "panic", io |-> FALSE]
  ELSE LET r == WriterWrite(b.writer, b.file, data, ok)
       IN  IF r.err
           THEN [b |-> [b EXCEPT !.writer = r.w, !.file = r.f], res |-> "io", io |-> r.io]
           ELSE [b |-> [b EXCEPT !.writer = r.w, !.file = r.f,
                                 !.writes = @ + 1, !.bytes = @ + Len(data)],
                 res |-> "ok", io |-> r.io]

LazyVars == <<seen>>

\* The goroutines inside FlushAll's or Reset's range over b.buckets.
Ranging(g) == {h \in DOMAIN pc : h # g /\ pc[h] \in {"LFlushAll", "LReset"} /\ mu.w # h}

InitLazy ==
  /\ bucket = [i \in Inst |-> NoBucket]
  /\ disk = [n \in Names |-> 0]
  /\ root = FALSE
  /\ buckets = [n \in Names |-> 0]
  /\ nInst = 0
  /\ mu = [w |-> 0, r |-> {}]
  /\ pc = [g \in Procs |-> "lazy"]
  /\ loc = [g \in Procs |-> IdleLoc(0)]
  /\ ret = NoRet
  /\ hist = [i \in Inst |-> NoHist]
  /\ calls = 0
  /\ seen = [g \in Procs |-> {}]
  /\ fails = 0
  /\ panicked = FALSE

\* Buffer.Create: Lock, MkdirAll(root), Unlock.
LazyBufferCreate(g) ==
  /\ ~panicked /\ pc[g] = "lazy" /\ CanLock
  /\ \E ok \in BOOLEAN :
       /\ MayFail(ok)
       /\ root' = (root \/ ok)
       /\ Spend(~ok)
       /\ ret' = RetBy(g, "Buffer.Create", 0, IF ok THEN "ok" ELSE "io", 0)
  /\ loc' = [loc EXCEPT ![g] = IdleLoc(0)]
  /\ UNCHANGED <<bucket, disk, buckets, nInst, mu, pc, hist, panicked, LazyVars>>
  /\ Call

\* The locals after Get returned bucket i: Get's caller holds the bucket,
\* Write and Flush go on with it.
LazyLoc(op, i, name, data) ==
  IF op = "Buffer.Get" THEN IdleLoc(i)
  ELSE [IdleLoc(i) EXCEPT !.op = op, !.name = name, !.data = data]

\* Buffer.Get(name), and the Get inside Buffer.Write and Buffer.Flush: Lock,
\* the lookup, on a miss NewBucket and the insert, Unlock; no filesystem call.
\* The insert is a map write; FlushAll and Reset range over the map without
\* the lock, and a range that runs beside the insert may or may not yield the
\* new entry, or the runtime stops the process (concurrent map iteration and
\* map write).
LazyGet(g, op, name, data) ==
  /\ ~panicked /\ pc[g] = "lazy" /\ CanLock
  /\ buckets[name] # 0 \/ nInst < MaxInst
  /\ LET hit == buckets[name] # 0
         i   == IF hit THEN buckets[name] ELSE nInst + 1
     IN  /\ IF hit
            THEN /\ UNCHANGED <<bucket, buckets, nInst, hist, panicked>>
                 /\ loc' = [loc EXCEPT ![g] = LazyLoc(op, i, name, data)]
            ELSE /\ bucket' = [bucket EXCEPT ![i] = NewBucket(name)]
                 /\ buckets' = [buckets EXCEPT ![name] = i]
                 /\ nInst' = i
                 /\ hist' = [hist EXCEPT ![i] = [NoHist EXCEPT !.live = TRUE]]
                 /\ \E sees \in BOOLEAN, dies \in BOOLEAN :
                      /\ Ranging(g) = {} => (~sees /\ ~dies)
                      /\ panicked' = dies
                      /\ loc' = [h \in DOMAIN loc |->
                                   IF h = g
                                   THEN LazyLoc(op, i, name, data)
                                   ELSE IF sees /\ h \in Ranging(g)
                                        THEN [loc[h] EXCEPT !.todo = @ \cup {i}]
                                        ELSE loc[h]]
         /\ pc' = [pc EXCEPT ![g] = CASE op = "Buffer.Get"   -> "lazy"
                                      [] op = "Buffer.Write" -> "LCheck"
                                      [] op = "Buffer.Flush" -> "LFlush"]
         /\ ret' = IF op = "Buffer.Get" THEN RetBy(g, op, i, "ok", 0) ELSE NoRet
  /\ UNCHANGED <<disk, root, mu, fails, LazyVars>>
  /\ Call

\* Bucket.Write: if b.file == nil, read without the bucket's lock.
LazyCheck(g) ==
  /\ ~panicked /\ pc[g] = "LCheck"
  /\ pc' = [pc EXCEPT ![g] = IF bucket[loc[g].b].file.nil THEN "LCreate" ELSE "LWrite"]
  /\ ret' = NoRet
  /\ UNCHANGED <<bucket, disk, root, buckets, nInst, mu, loc, hist, calls, fails, panicked, LazyVars>>

\* Bucket.Write: b.Create(), whose error Write returns.
LazyCreateStep(g) ==
  /\ ~panicked /\ pc[g] = "LCreate"
  /\ \E ok \in BOOLEAN :
       /\ ok \/ ~root \/ fails < MaxFail
       /\ LET i == loc[g].b
              b == bucket[i]
              r == LazyCreate(b, ok)
          IN  /\ bucket' = [bucket EXCEPT ![i] = r.b]
              /\ disk' = IF r.made THEN [disk EXCEPT ![b.path] = i] ELSE disk
              /\ root' = (root \/ r.made)
              /\ Spend(~ok /\ b.file.nil /\ root)
              /\ IF r.res = "ok"
                 THEN /\ pc' = [pc EXCEPT ![g] = "LWrite"]
                      /\ loc' = loc
                      /\ ret' = NoRet
                 ELSE /\ pc' = [pc EXCEPT ![g] = "lazy"]
                      /\ loc' = [loc EXCEPT ![g] = IdleLoc(0)]
                      /\ ret' = RetBy(g, "Buffer.Write", i, r.res, 0)
  /\ UNCHANGED <<buckets, nInst, mu, hist, calls, panicked, LazyVars>>

\* Bucket.Write: b.Lock(), writer.Write(data), the counters, Unlock.
LazyWriteStep(g) ==
  /\ ~panicked /\ pc[g] = "LWrite"
  /\ \E ok \in BOOLEAN :
       /\ MayFail(ok)
       /\ LET i == loc[g].b
              r == LazyWrite(bucket[i], loc[g].data, ok)
          IN  /\ bucket' = [bucket EXCEPT ![i] = r.b]
              /\ Spend(~ok /\ r.io)
              /\ panicked' = (r.res = "panic")
              /\ hist' = [hist EXCEPT ![i] = HistWrite(@, r.res, loc[g].data)]
              /\ ret' = RetBy(g, "Buffer.Write", i, r.res, 0)
  /\ pc' = [pc EXCEPT ![g] = "lazy"]
  /\ loc' = [loc EXCEPT ![g] = IdleLoc(0)]
  /\ UNCHANGED <<disk, root, buckets, nInst, mu, calls, LazyVars>>

\* Buffer.Flush(name) after its Get: bucket.Flush().
LazyFlushStep(g) ==
  /\ ~panicked /\ pc[g] = "LFlush"
  /\ \E ok \in BOOLEAN :
       /\ MayFail(ok)
       /\ LET i == loc[g].b
              r == BucketFlush(bucket[i], ok)
          IN  /\ bucket' = [bucket EXCEPT ![i] = r.b]
              /\ Spend(~ok /\ r.io)
              /\ panicked' = (r.res = "panic")
              /\ ret' = RetBy(g, "Buffer.Flush", i, r.res, 0)
  /\ pc' = [pc EXCEPT ![g] = "lazy"]
  /\ loc' = [loc EXCEPT ![g] = IdleLoc(0)]
  /\ UNCHANGED <<disk, root, buckets, nInst, mu, hist, calls, LazyVars>>

\* Buffer.FlushAll: a range over b.buckets with no lock taken; one
\* bucket.Flush() per step, the first error is returned.
LazyFlushAllCall(g) ==
  /\ ~panicked /\ pc[g] = "lazy"
  /\ pc' = [pc EXCEPT ![g] = "LFlushAll"]
  /\ loc' = [loc EXCEPT ![g] = [IdleLoc(0) EXCEPT !.op = "Buffer.FlushAll", !.todo = Tracked]]
  /\ ret' = NoRet
  /\ UNCHANGED <<bucket, disk, root, buckets, nInst, mu, hist, fails, panicked, LazyVars>>
  /\ Call

LazyFlushAllStep(g) ==
  /\ ~panicked /\ pc[g] = "LFlushAll"
  /\ \E i \in loc[g].todo, ok \in BOOLEAN :
       /\ MayFail(ok)
       /\ LET r == BucketFlush(bucket[i], ok)
          IN  /\ bucket' = [bucket EXCEPT ![i] = r.b]
              /\ Spend(~ok /\ r.io)
              /\ panicked' = (r.res = "panic")
              /\ IF ~Stops(r.res)
                 THEN /\ loc' = [loc EXCEPT ![g].todo = @ \ {i}]
                      /\ pc' = pc
                      /\ ret' = NoRet
                 ELSE /\ loc' = [loc EXCEPT ![g] = IdleLoc(0)]
                      /\ pc' = [pc EXCEPT ![g] = "lazy"]
                      /\ ret' = RetBy(g, "Buffer.FlushAll", i, r.res, 0)
  /\ UNCHANGED <<disk, root, buckets, nInst, mu, hist, calls, LazyVars>>

LazyFlushAllDone(g) ==
  /\ ~panicked /\ pc[g] = "LFlushAll" /\ loc[g].todo = {}
  /\ pc' = [pc EXCEPT ![g] = "lazy"]
  /\ loc' = [loc EXCEPT ![g] = IdleLoc(0)]
  /\ ret' = RetBy(g, "Buffer.FlushAll", 0, "ok", 0)
  /\ UNCHANGED <<bucket, disk, root, buckets, nInst, mu, hist, calls, fails, panicked, LazyVars>>

\* Buffer.Reset takes no lock; Buffer.Destroy takes b.Lock() and calls
\* Reset.  The range destroys one bucket per step; then the map is replaced.
LazyResetCall(g, op) ==
  /\ ~panicked /\ pc[g] = "lazy"
  /\ IF op = "Buffer.Destroy"
     THEN CanLock /\ mu' = [mu EXCEPT !.w = g]
     ELSE mu' = mu
  /\ pc' = [pc EXCEPT ![g] = "LReset"]
  /\ loc' = [loc EXCEPT ![g] = [IdleLoc(0) EXCEPT !.op = op, !.todo = Tracked]]
  /\ ret' = NoRet
  /\ UNCHANGED <<bucket, disk, root, buckets, nInst, hist, fails, panicked, LazyVars>>
  /\ Call

LazyResetStep(g) ==
  /\ ~panicked /\ pc[g] = "LReset"
  /\ \E i \in loc[g].todo, ok \in BOOLEAN :
       /\ MayFail(ok)
       /\ LET b == bucket[i]
              r == BucketDestroy(b, Linked(b.path), ok)
          IN  /\ bucket' = [bucket EXCEPT ![i] = r.b]
              /\ disk' = IF r.removed THEN [disk EXCEPT ![b.path] = 0] ELSE disk
              /\ Spend(~ok /\ ~b.file.nil /\ Linked(b.path))
              /\ panicked' = (r.res = "panic")
              /\ hist' = [hist EXCEPT ![i] = HistDestroy(@, r.res)]
              /\ IF ~Stops(r.res)
                 THEN /\ loc' = [loc EXCEPT ![g].todo = @ \ {i}]
                      /\ ret' = NoRet
                      /\ UNCHANGED <<mu, pc>>
                 ELSE /\ mu' = [mu EXCEPT !.w = IF @ = g THEN 0 ELSE @]
                      /\ pc' = [pc EXCEPT ![g] = "lazy"]
                      /\ loc' = [loc EXCEPT ![g] = IdleLoc(0)]
                      /\ ret' = RetBy(g, loc[g].op, i, r.res, 0)
  /\ UNCHANGED <<root, buckets, nInst, calls, LazyVars>>

LazyResetDone(g) ==
  /\ ~panicked /\ pc[g] = "LReset" /\ loc[g].todo = {}
  /\ buckets' = [n \in Names |-> 0]
  /\ IF loc[g].op = "Buffer.Reset"
     THEN /\ pc' = [pc EXCEPT ![g] = "lazy"]
          /\ loc' = [loc EXCEPT ![g] = IdleLoc(0)]
          /\ ret' = RetBy(g, "Buffer.Reset", 0, "ok", 0)
     ELSE /\ pc' = [pc EXCEPT ![g] = "LDestroyRm"]
          /\ loc' = loc
          /\ ret' = NoRet
  /\ hist' = [i \in Inst |-> [hist[i] EXCEPT !.live = FALSE]]
  /\ UNCHANGED <<bucket, disk, root, nInst, mu, calls, fails, panicked, LazyVars>>

\* Buffer.Destroy after Reset returned nil: RemoveAll(root), the deferred
\* Unlock.
LazyDestroyRm(g) ==
  /\ ~panicked /\ pc[g] = "LDestroyRm"
  /\ \E ok \in BOOLEAN :
       /\ MayFail(ok)
       /\ root' = (root /\ ~ok)
       /\ disk' = IF ok THEN [n \in Names |-> 0] ELSE disk
       /\ Spend(~ok)
       /\ ret' = RetBy(g, "Buffer.Destroy", 0, IF ok THEN "ok" ELSE "io", 0)
  /\ mu' = [mu EXCEPT !.w = 0]
  /\ pc' = [pc EXCEPT ![g] = "lazy"]
  /\ loc' = [loc EXCEPT ![g] = IdleLoc(0)]
  /\ UNCHANGED <<bucket, buckets, nInst, hist, calls, panicked, LazyVars>>

NextLazy ==
  \E g \in Procs :
    \/ LazyBufferCreate(g)
    \/ \E name \in Names : LazyGet(g, "Buffer.Get", name, <<>>)
    \/ \E name \in Names, n \in 1..MaxLen : LazyGet(g, "Buffer.Write", name, Payload(n))
    \/ \E name \in Names : LazyGet(g, "Buffer.Flush", name, <<>>)
    \/ LazyCheck(g)
    \/ LazyCreateStep(g)
    \/ LazyWriteStep(g)
    \/ LazyFlushStep(g)
    \/ LazyFlushAllCall(g)
    \/ LazyFlushAllStep(g)
    \/ LazyFlushAllDone(g)
    \/ LazyResetCall(g, "Buffer.Reset")
    \/ LazyResetCall(g, "Buffer.Destroy")
    \/ LazyResetStep(g)
    \/ LazyResetDone(g)
    \/ LazyDestroyRm(g)

SpecLazy == InitLazy /\ [][NextLazy]_vars

\* ------------------------------------------------------- both variants
\* A run is a run of the eager Buffer or a run of the lazy one.
InitBoth == Init \/ InitLazy

NextBoth == Next \/ NextLazy

SpecBoth == InitBoth /\ [][NextBoth]_vars

\* ------------------------------------------------------- fair scheduling
\* A goroutine between the call of a Buffer method and its return: the steps
\* it takes on its own, in either variant.
Step(g) ==
  \/ GetLookup(g) \/ GetInsert(g) \/ WriteBucket(g)
  \/ CloseStep(g) \/ CloseDone(g)
  \/ ResetStep(g) \/ ResetDone(g) \/ DestroyRm(g)
  \/ AggStep(g) \/ AggDone(g)
  \/ LazyCheck(g) \/ LazyCreateStep(g) \/ LazyWriteStep(g) \/ LazyFlushStep(g)
  \/ LazyFlushAllStep(g) \/ LazyFlushAllDone(g)
  \/ LazyResetStep(g) \/ LazyResetDone(g) \/ LazyDestroyRm(g)

\* The Go scheduler runs every goroutine that can run, and a goroutine that
\* waits in Lock() gets the mutex once it stays free; callers need not call.
Fair == \A g \in Procs : WF_vars(Step(g))

SpecFair     == Spec /\ Fair
SpecLazyFair == SpecLazy /\ Fair

\* ------------------------------------------------------------------ claims
\* The payloads written to instance i since its last Open that returned nil.
SinceOpen(i) == SubSeq(hist[i].all, hist[i].mark + 1, Len(hist[i].all))

\* C1: Bucket.Write on a bucket that is not open (never opened, or closed and
\* not opened again) returns the not-open error and changes nothing: not the
\* counters, not the buffered data, not the file; it returns that error only
\* then, and on an open bucket whose writer and filesystem work it returns nil.
C1_WriteGating ==
  [][ret'.op = "Bucket.Write" =>
       LET b == bucket[ret'.inst]
       IN  /\ (ret'.res = "not open") <=> ~b.open
           /\ ~b.open => /\ bucket' = bucket
                         /\ disk' = disk
                         /\ hist' = hist
           /\ (b.open /\ ~b.writer.err /\ fails' = fails) => ret'.res = "ok"]_vars

\* C1 witness: a Write was rejected on a bucket that was closed with data in
\* its file.
C1_Witness ==
  /\ ret.op = "Bucket.Write" /\ ret.res = "not open"
  /\ hist[1].sealed /\ bucket[1].file.data # <<>>

\* C2: Bucket.Open on an open bucket returns the already-open error and leaves
\* the bucket (flag, handle, writer and pending bytes, counters) and the file
\* as they were.
C2_OpenTwice ==
  [][(ret'.op = "Bucket.Open" /\ bucket[ret'.inst].open) =>
       /\ ret'.res = "already open"
       /\ bucket' = bucket
       /\ disk' = disk
       /\ root' = root]_vars

\* C2 witness: Open was refused on a bucket with bytes pending in the writer
\* and bytes in the file.
C2_Witness ==
  /\ ret.op = "Bucket.Open" /\ ret.res = "already open"
  /\ bucket[1].writer.buf # <<>> /\ bucket[1].file.data # <<>>
  /\ bucket[1].writes > 0

\* C3: the counters are the number and the total length of the Writes that
\* returned nil (since construction or the last Destroy), and a Write that
\* returns an error changes neither.
C3_Counters ==
  /\ [](\A i \in Inst : /\ BucketWrites(bucket[i]) = CountedWrites(i)
                        /\ BucketBytes(bucket[i]) = CountedBytes(i))
  /\ [][(ret'.op = "Bucket.Write" /\ ret'.res # "ok") =>
          /\ bucket'[ret'.inst].writes = bucket[ret'.inst].writes
          /\ bucket'[ret'.inst].bytes = bucket[ret'.inst].bytes]_vars

\* C3 witness: a Write longer than the buffer was counted, and then a Write
\* failed on the filesystem with bytes of it left in the writer.
C3_Witness ==
  /\ ret.op = "Bucket.Write" /\ ret.res = "io"
  /\ bucket[1].writes = 1 /\ bucket[1].bytes > BufSize
  /\ bucket[1].writer.buf # <<>>

\* C4: after Open, Writes and a Close that returned nil, the Reads up to
\* end-of-data return exactly the payloads written since that Open, in order.
C4_RoundTrip ==
  (ret.op = "Bucket.Read" /\ ret.res = "EOF" /\ hist[ret.inst].sealed)
    => hist[ret.inst].got = SinceOpen(ret.inst)

\* C4 witness: end-of-data after reading back two payloads, among them an
\* empty one or one that went past the buffer.
C4_Witness ==
  /\ ret.op = "Bucket.Read" /\ ret.res = "EOF" /\ hist[1].sealed
  /\ hist[1].w = 2 /\ Len(hist[1].got) > BufSize

\* C5: Bucket.Read on an open bucket returns the still-open error and 0 bytes
\* and changes nothing, the cursor included; a Read reaches the file only on
\* a closed bucket.
C5_ReadGating ==
  [][ret'.op = "Bucket.Read" =>
       LET b == bucket[ret'.inst]
       IN  /\ b.open => /\ ret'.res = "still open"
                        /\ ret'.n = 0
                        /\ bucket' = bucket
                        /\ disk' = disk
           /\ ret'.res \in {"ok", "EOF"} => ~b.open
           /\ bucket'[ret'.inst].file.pos # b.file.pos => ~b.open]_vars

\* C5 witness: a Read was refused on an open bucket whose file holds bytes
\* before and after the cursor's reach.
C5_Witness ==
  /\ ret.op = "Bucket.Read" /\ ret.res = "still open"
  /\ bucket[1].file.data # <<>> /\ bucket[1].writer.buf # <<>>

\* C8 as stated: after a Flush or Close that returned nil the bucket's file
\* holds all payloads ever written to the bucket.
C8_AllPayloads ==
  (ret.op \in {"Bucket.Flush", "Bucket.Close"} /\ ret.res = "ok")
    => bucket[ret.inst].file.data = hist[ret.inst].all

\* C8 amended: after a Flush or Close that returned nil the bucket's file, if
\* no Destroy removed it since the last Open, holds exactly the payloads
\* written since that Open, in the order the Writes took the lock.
C8_SinceOpen ==
  (ret.op \in {"Bucket.Flush", "Bucket.Close"} /\ ret.res = "ok")
    => /\ bucket[ret.inst].file.data = SinceOpen(ret.inst)
       /\ disk[bucket[ret.inst].path] = ret.inst
            => FileAt(bucket[ret.inst].path) = SinceOpen(ret.inst)

\* C8 witness: a Flush returned nil in the second open cycle of a bucket, with
\* payloads written in both cycles.
C8_Witness ==
  /\ ret.op = "Bucket.Flush" /\ ret.res = "ok" /\ disk[1] = 1
  /\ hist[1].mark > 0 /\ Len(hist[1].all) > hist[1].mark

\* The instances Buffer.Get constructed for name since the map was last
\* replaced.
Live(name) == {i \in Inst : hist[i].live /\ bucket[i].path = name}

\* C6: while no Reset or Destroy replaces the map, one Bucket at most is
\* constructed for a name, and every Buffer.Get(name) that returns a bucket
\* returns that one, from whichever goroutine it is called.
C6_GetOrCreate ==
  /\ [](\A name \in Names : Cardinality(Live(name)) <= 1)
  /\ [][(ret'.op = "Buffer.Get" /\ ret'.res = "ok") =>
          /\ hist'[ret'.inst].live
          /\ bucket'[ret'.inst].path = loc[ret'.by].name
          /\ buckets'[loc[ret'.by].name] = ret'.inst]_vars

\* C6 witness: a Get returned a bucket that another goroutine's Get had
\* constructed.
C6_Witness ==
  /\ ret.op = "Buffer.Get" /\ ret.res = "ok" /\ nInst = 1
  /\ \E g \in Procs : g # ret.by /\ loc[g].b = ret.inst

\* The concatenation of the goroutines' payloads in the order perm, the
\* goroutine g having written Tagged(g, len[g]).
RECURSIVE Blocks(_, _)
Blocks(perm, len) ==
  IF perm = <<>> THEN <<>>
  ELSE Tagged(Head(perm), len[Head(perm)]) \o Blocks(Tail(perm), len)

Orders == {p \in [1..NumProcs -> Procs] : \A g \in Procs : \E k \in 1..NumProcs : p[k] = g}

RECURSIVE SumLen(_, _)
SumLen(S, len) ==
  IF S = {} THEN 0
  ELSE LET g == CHOOSE x \in S : TRUE IN len[g] + SumLen(S \ {g}, len)

\* C7: the concurrent Buffer.Writes to one name all return nil; when they
\* have returned and Close has, the bucket counts one Write per goroutine and
\* the sum of the payload lengths, and its file is the goroutines' payloads,
\* each once and whole, one after the other in some order.
C7_BatchWrites ==
  /\ [][ret'.op = "Buffer.Write" => ret'.res = "ok"]_vars
  /\ []((ret.op = "Buffer.Close") =>
          /\ ret.res = "ok"
          /\ buckets[1] # 0
          /\ BucketWrites(bucket[buckets[1]]) = NumProcs
          /\ \E p \in Orders, len \in [Procs -> 0..MaxLen] :
               /\ FileAt(1) = Blocks(p, len)
               /\ BucketBytes(bucket[buckets[1]]) = SumLen(Procs, len))

\* C7 witness: Close returned after the writers, and the payload of the
\* goroutine started last comes first in the file.
C7_Witness ==
  /\ ret.op = "Buffer.Close" /\ ret.res = "ok"
  /\ Len(FileAt(1)) > BufSize
  /\ FileAt(1)[1] > 100 * NumProcs

\* C9: the number Buffer.Writes() or Buffer.Bytes() returns is the sum of the
\* tracked buckets' counters as they stood together at some instant between
\* the call and its return.
C9_Snapshot ==
  (ret.op \in {"Buffer.Writes", "Buffer.Bytes"}) => ret.n \in seen[ret.by]

C11_CloseOrder ==
  [][(ret'.op = "Bucket.Close" /\ bucket[1].open) =>
       LET b == bucket[1]
           c == bucket'[1]
           flushed == /\ c.writer.buf = <<>>
                      /\ c.file.data = b.file.data \o b.writer.buf
       IN  \/ /\ ret'.res = "ok"
              /\ ~c.open /\ flushed /\ c.file.pos = 0
           \/ /\ ret'.res = "io"
              /\ c.open /\ c.file = b.file /\ c.writer.buf = b.writer.buf
           \/ /\ ret'.res = "io"
              /\ ~c.open /\ flushed /\ c.file.pos = Len(c.file.data)]_vars

\* C11 witness: Close of an open bucket with written bytes returned the
\* seek's error: the bytes are in the file, the bucket is closed, the cursor
\* is at the end.
C11_Witness ==
  /\ ret.op = "Bucket.Close" /\ ret.res = "io"
  /\ ~bucket[1].open /\ ~hist[1].sealed
  /\ Len(bucket[1].file.data) > 0
  /\ bucket[1].file.pos = Len(bucket[1].file.data)
  /\ bucket[1].writer.buf = <<>>

\* What a Buffer.Reset() that returned nil leaves of the Buffer: an empty
\* map, so that Buckets() is empty and Size(), Writes() and Bytes() are 0, no
\* file at the path of a bucket it tracked, and the root directory as it was.
ResetLeaves ==
  /\ Tracked' = {}
  /\ Size' = 0
  /\ Total(buckets', bucket', "Buffer.Writes") = 0
  /\ Total(buckets', bucket', "Buffer.Bytes") = 0
  /\ root' = root
  /\ \A i \in Tracked : disk'[bucket[i].path] = 0

\* A Get that constructed its bucket returns it open with both counters 0.
GetFresh ==
  (ret'.op = "Buffer.Get" /\ ret'.res = "ok" /\ pc[ret'.by] = "GetInsert") =>
     LET c == bucket'[ret'.inst]
     IN  c.open /\ c.writes = 0 /\ c.bytes = 0 /\ hist'[ret'.inst].w = 0

\* C12 as stated: when Buffer.Reset() returns nil, every bucket it tracked has
\* its file removed and both counters at 0, the map is empty, Size(), Writes()
\* and Bytes() are 0 and the root directory is as before; a Get that then
\* constructs a bucket returns it open with both counters 0.
C12_ResetClean ==
  [][/\ (ret'.op = "Buffer.Reset" /\ ret'.res = "ok") =>
          /\ ResetLeaves
          /\ \A i \in Tracked : bucket'[i].writes = 0 /\ bucket'[i].bytes = 0
     /\ GetFresh]_vars

\* C12 amended: as C12, but the counters of a bucket the Reset destroyed count
\* the Writes the bucket accepted after its Destroy (a Buffer.Write that got
\* the bucket before the Reset and wrote after), and are 0 when there is none.
C12_ResetDestroys ==
  [][/\ (ret'.op = "Buffer.Reset" /\ ret'.res = "ok") =>
          /\ ResetLeaves
          /\ \A i \in Tracked :
               /\ bucket'[i].writes = hist'[i].w - hist'[i].dw
               /\ bucket'[i].bytes = Len(hist'[i].all) - hist'[i].dlen
     /\ GetFresh]_vars

\* C12 witness: Reset returned nil after it destroyed a bucket that had
\* accepted a Write, and left no bucket and no file.
C12_Witness ==
  /\ ret.op = "Buffer.Reset" /\ ret.res = "ok"
  /\ Tracked = {}
  /\ \E i \in 1..nInst : hist[i].dw > 0 /\ bucket[i].writes = 0 /\ disk[bucket[i].path] = 0

\* C13: when Buffer.Destroy() has returned nil the root directory does not
\* exist, no bucket file exists and the Buffer tracks no bucket.
C13_DestroyRemovesAll ==
  (ret.op = "Buffer.Destroy" /\ ret.res = "ok") =>
     /\ ~root
     /\ \A n \in Names : disk[n] = 0
     /\ Tracked = {}

\* C14: Bucket.Destroy returns in every state of the bucket (never opened,
\* open, closed, destroyed) without a crash, and when it returns nil no file
\* is at the bucket's path and both counters are 0.
C14_DestroyAnywhere ==
  (ret.op = "Bucket.Destroy") =>
     /\ ret.res # "panic" /\ ~panicked
     /\ ret.res = "ok" =>
          /\ ~Linked(bucket[1].path)
          /\ bucket[1].writes = 0 /\ bucket[1].bytes = 0

\* C15: Bucket.Flush returns in every state of the bucket, one never opened
\* included, without a crash; it leaves the open flag and both counters as
\* they were; and a Flush right after a Flush that returned nil changes
\* nothing.
C15_FlushAnywhere ==
  [][(ret'.op = "Bucket.Flush") =>
       /\ ret'.res # "panic" /\ ~panicked'
       /\ bucket'[1].open = bucket[1].open
       /\ bucket'[1].writes = bucket[1].writes
       /\ bucket'[1].bytes = bucket[1].bytes
       /\ ret'.res = "ok" => BucketFlush(bucket'[1], TRUE).b = bucket'[1]]_vars

\* C16 (lazy variant): a Write to a bucket whose file was not yet created
\* creates the file and is accepted; of several goroutines that issue the
\* first Write to one bucket none is refused by the bucket, and each Write
\* that returned nil is counted.  (A filesystem error is the filesystem's.)
C16_LazyFirstWrite ==
  (ret.op = "Buffer.Write") =>
     /\ ret.res \in {"ok", "io"}
     /\ ret.res = "ok" =>
          /\ ~bucket[ret.inst].file.nil
          /\ bucket[ret.inst].writes = CountedWrites(ret.inst)
          /\ bucket[ret.inst].bytes = CountedBytes(ret.inst)

\* C17 as stated: in every state no two Bucket instances the Buffer
\* constructed have the same name and path, across Reset and Destroy too.
C17_OneInstanceEver ==
  \A i \in 1..nInst, j \in 1..nInst : bucket[i].path = bucket[j].path => i = j

\* C17 amended: in every state the Buffer tracks one instance at most per
\* name, a tracked instance has the name it is tracked under, and of the
\* instances constructed for a name all but the one constructed last were in
\* a map that a Reset or Destroy has replaced since.
C17_OneInstanceTracked ==
  /\ \A n \in Names : buckets[n] # 0 =>
        /\ buckets[n] \in 1..nInst
        /\ bucket[buckets[n]].path = n
        /\ hist[buckets[n]].live
  /\ \A i \in 1..nInst, j \in 1..nInst :
        (bucket[i].path = bucket[j].path /\ i < j) => ~hist[i].live

\* C17 witness: a second instance for a name is tracked after a Reset, and a
\* goroutine still holds the first.
C17_Witness ==
  \E i \in 1..nInst, j \in 1..nInst, g \in Procs :
      /\ i < j /\ bucket[i].path = bucket[j].path
      /\ buckets[bucket[j].path] = j
      /\ loc[g].b = i /\ pc[g] = "idle"

\* The step is a Bucket's filesystem call: a file is created or removed at a
\* bucket's path, or a bucket's file is written or its cursor moved.
BucketIO ==
  \/ \E n \in Names : disk'[n] # disk[n]
  \/ \E i \in Inst : bucket'[i].file # bucket[i].file

\* C18: no goroutine holds the Buffer's lock while a Bucket operation it
\* runs touches the filesystem.
C18_NoIOUnderBufferLock ==
  [][BucketIO => mu.w = 0 /\ mu.r = {}]_vars

\* Goroutine g is inside a lookup in, an insert into or a range over
\* b.buckets; it holds the Buffer's lock; it is about to read b.file outside
\* the bucket's lock.
UsesMap(g) == pc[g] \in {"Get", "GetInsert", "Close", "Reset", "Agg", "LFlushAll", "LReset"}
HoldsBufferLock(g) == mu.w = g \/ g \in mu.r
ReadsFileUnlocked(g) == pc[g] = "LCheck"

\* C19: whoever reads or changes the name-to-bucket map holds the Buffer's
\* lock, and whoever reads or changes a bucket's file, writer or counters
\* holds that bucket's lock.
C19_LockDiscipline ==
  \A g \in DOMAIN pc :
     /\ UsesMap(g) => HoldsBufferLock(g)
     /\ ~ReadsFileUnlocked(g)

\* Goroutine g is inside the loop of Buffer.Close, Reset or FlushAll and the
\* step is its own: it leaves the loop or has one bucket less to visit.
InLoop(g) == pc[g] \in {"Close", "Reset", "LFlushAll", "LReset"}
OwnStep(g) ==
  \/ pc'[g] # pc[g]
  \/ loc'[g].todo # loc[g].todo /\ loc'[g].todo \subseteq loc[g].todo
Failed(g) == ret'.by = g /\ ret'.res \notin {"ok", "panic"}

\* Bucket i is as the loop of g leaves a bucket it goes on from: closed and
\* flushed, destroyed, or flushed.
Done(g, i) ==
  CASE pc[g] = "Close"     -> ~bucket'[i].open /\ bucket'[i].writer.buf = <<>>
    [] pc[g] = "LFlushAll" -> bucket'[i].writer.buf = <<>>
    [] OTHER               -> /\ disk'[bucket[i].path] = 0
                              /\ bucket'[i].writes = 0 /\ bucket'[i].bytes = 0

\* C20: a step of Buffer.Close, Reset or FlushAll touches the one bucket it
\* visits and no other; it goes on to the next bucket only when that bucket's
\* operation returned nil; when the operation returns an error the method
\* returns it in that step, with the buckets not yet visited untouched; and
\* the map is as it was until a Reset has visited every bucket, so a failed
\* Reset leaves every entry, the destroyed buckets' too.
C20_StopAtFirstError ==
  [][\A g \in DOMAIN pc : (InLoop(g) /\ OwnStep(g)) =>
        \E i \in loc[g].todo \cup {0} :
           /\ \A j \in Inst \ {i} : bucket'[j] = bucket[j]
           /\ \A n \in Names : disk'[n] # disk[n] => (i # 0 /\ n = bucket[i].path)
           /\ pc'[g] = pc[g] =>
                (i # 0 /\ loc'[g].todo = loc[g].todo \ {i} /\ Done(g, i))
           /\ Failed(g) =>
                /\ i # 0 /\ ret'.inst = i /\ ret'.res = "io"
                /\ pc'[g] \in {"idle", "lazy"}
                /\ buckets' = buckets
           /\ (pc'[g] = pc[g] \/ Failed(g) \/ pc[g] \in {"Close", "LFlushAll"}) =>
                buckets' = buckets]_vars

\* C20 witness: Reset returned the error of the second bucket it visited;
\* the first is destroyed and both are still in the map.
C20_Witness ==
  /\ ret.op = "Buffer.Reset" /\ ret.res = "io"
  /\ ret.inst \in Tracked /\ Linked(bucket[ret.inst].path)
  /\ \E j \in Tracked \ {ret.inst} : ~Linked(bucket[j].path) /\ hist[j].live

\* Sequence a is the beginning of sequence b.
IsPrefix(a, b) == Len(a) <= Len(b) /\ a = SubSeq(b, 1, Len(a))

C22_CountersMonotone ==
  [][LET b == bucket[1]
         c == bucket'[1]
     IN  /\ (c.writes < b.writes \/ c.bytes < b.bytes) =>
              /\ ret'.op = "Bucket.Destroy" /\ ret'.res = "ok"
              /\ c.writes = 0 /\ c.bytes = 0
         /\ ret'.op # "Bucket.Destroy" =>
              c.writes >= b.writes /\ c.bytes >= b.bytes
         /\ (ret'.op = "Bucket.Destroy" /\ ret'.res = "ok") =>
              c.writes = 0 /\ c.bytes = 0]_vars

\* C22 witness: a re-Open after Close has succeeded on a bucket whose
\* counters were positive, and they are still what the accepted writes made
\* them.
C22_Witness ==
  /\ ret.op = "Bucket.Open" /\ ret.res = "ok"
  /\ hist[1].mark > 0
  /\ bucket[1].writes = 2
  /\ bucket[1].bytes > 0
  /\ bucket[1].writes = CountedWrites(1)

\* The keys of the map; the names for which a Buffer.Get or a Buffer.Write
\* returned nil since construction or the last completed Reset loop; the
\* names for which a Get, called directly or by Buffer.Write, constructed and
\* opened a bucket since then.
TrackedNames   == {n \in Names : buckets[n] # 0}
SucceededNames == {bucket[i].path : i \in {j \in 1..nInst : hist[j].named}}
OpenedNames    == {bucket[i].path : i \in {j \in 1..nInst : hist[j].live}}

\* The step returns from a Get, a caller's or Buffer.Write's, whose
\* bucket.Open failed.
OpenFailed == ret'.op \in {"Buffer.Get", "Buffer.Write"} /\ ret'.res # "ok" /\ ret'.inst = 0

\* C23 as stated: what Buffer.Buckets() returns is exactly the set of names
\* for which a Buffer.Get or a Buffer.Write returned nil since construction or
\* the last Reset that returned nil, and Size() returns the number of those
\* names; checked where no other call is under way.
C23_SucceededNames ==
  (ret.op = "Buffer.Size" /\ \A g \in Procs : pc[g] = "idle") =>
     /\ TrackedNames = SucceededNames
     /\ ret.n = Cardinality(SucceededNames)

\* C23 amended: whenever no goroutine holds the Buffer's write lock the keys
\* of the map, which Buckets() lists each once, are exactly the names for which
\* a Get (a caller's or the one Buffer.Write starts with) opened a bucket since
\* construction or since the last time a Reset loop (Reset's or Destroy's) ran
\* to its end; Size() returns their number; and a Get whose bucket.Open fails
\* leaves the map as it was.  A Buffer.Write whose bucket.Write fails has
\* added its name all the same.
C23_TrackedNames ==
  /\ []((mu.w = 0) => TrackedNames = OpenedNames)
  /\ []((ret.op = "Buffer.Size") => ret.n = Cardinality(OpenedNames))
  /\ [][OpenFailed => buckets' = buckets]_vars

\* C23 witness: Size() returned 1 although no Get and no Write has returned
\* nil: the one Buffer.Write so far created its bucket and then failed in
\* bucket.Write.
C23_Witness ==
  /\ ret.op = "Buffer.Size" /\ ret.n = 1
  /\ SucceededNames = {}
  /\ \E i \in 1..nInst : hist[i].live /\ hist[i].w = 0 /\ bucket[i].writer.err

\* C24: Buffer.Destroy is atomic with respect to Get and Write: while a
\* goroutine stands between the reset step of its Destroy and the removal of
\* the root directory no step changes the map, and the step in which Destroy
\* returns nil leaves the map empty and every tracked bucket with its file.
C24_DestroyAtomic ==
  [][/\ (\E g \in Procs : pc[g] \in {"DestroyRm", "LDestroyRm"}) => buckets' = buckets
     /\ (ret'.op = "Buffer.Destroy" /\ ret'.res = "ok") =>
          /\ \A n \in Names : buckets'[n] = 0
          /\ \A n \in Names : buckets'[n] # 0 => disk'[n] = buckets'[n]]_vars

\* A goroutine is inside no call.
AtRest(g) == pc[g] \in {"idle", "lazy"}

\* C25: under fair scheduling and a filesystem that answers, every operation
\* a goroutine has started returns: the goroutine comes to rest again, and
\* not by a crash of the process.
C25_EveryCallReturns ==
  \A g \in Procs : (~AtRest(g)) ~> (AtRest(g) /\ ~panicked)

====
